---- MODULE Spec2Model ----
(***************************************************************************)
(* Model of the ImVeo generation workflow: the App component's state       *)
(* (src/App.tsx), its handleGenerate callback, the generateVeoVideo        *)
(* service (src/unnamed/part_002) and the Button's disabled rule           *)
(* (src/unnamed/part_000).                                                 *)
(*                                                                         *)
(* JavaScript strings are TLA+ strings (\o is concatenation, SubSeq is     *)
(* substring).  A value that may be null/undefined is an option: Null is   *)
(* <<>> and Some(v) is <<v>>.                                              *)
(*                                                                         *)
(* Every invocation of handleGenerate in progress is a "run" with its own  *)
(* closure and locals; a run advances one await at a time, and user events *)
(* interleave at the awaits.  run[r] = IdleRun: slot r holds no invocation *)
(* (the slot of a finished invocation is free again).                      *)
(***************************************************************************)
EXTENDS Integers, Sequences, FiniteSets, TLC

VARIABLES file, prompt, aspectRatio, videoState, aistudio, apiKey, run, lastCall

vars == <<file, prompt, aspectRatio, videoState, aistudio, apiKey, run, lastCall>>

\* ------------------------------------------------------------------ bounds
MaxRuns == 2
MaxPolls == 2

Runs == 1..MaxRuns

\* ----------------------------------------------------------------- options
Null == <<>>
Some(v) == <<v>>

\* JavaScript truthiness of a string that may be null/undefined.
Truthy(o) == o # Null /\ o[1] # ""

\* String.prototype.includes
Includes(s, needle) ==
    \E i \in 1..(Len(s) - Len(needle) + 1) :
        SubSeq(s, i, i + Len(needle) - 1) = needle

\* --------------------------------------------------------- program strings
LANDSCAPE == "16:9"
PORTRAIT == "9:16"
AspectRatio == {LANDSCAPE, PORTRAIT}

MsgInitAuth == "Initializing authentication..."
MsgUploading == "Uploading image & starting generation..."
MsgDone == "Done!"
MsgKeyRequired == "API Key selection is required to proceed."
MsgUnexpected == "An unexpected error occurred"
NotFoundSignature == "Requested entity was not found"
MsgKeyInvalid == "API Key session invalid. Please try generating again to select a new key."
FallbackPrompt == "Animate this image cinematically"
MsgGenFailedPrefix == "Video generation failed: "
MsgUnknownError == "Unknown error"
MsgNoUri == "No video URI returned from the API."
KeyParam == "&key="

\* ------------------------------------------------------------------ inputs
Files == {"landscape.jpg"}
Prompts == {"", " ", "pan left"}
ApiKeys == {"KEY1", "KEY2"}

\* error payloads of an operation snapshot: operation.error.message may be
\* absent, empty, or a text
ErrorPayloads ==
    { [message |-> Null],
      [message |-> Some("")],
      [message |-> Some("quota exceeded")],
      [message |-> Some("Requested entity was not found.")] }

\* operation.response?.generatedVideos?.[0]?.video?.uri : undefined when any
\* link of the chain is missing
Uris == {Null, Some(""), Some("https://x/video1")}

\* Snapshots the remote service returns for a create or status request.
DoneSnapshots ==
    [done : {TRUE}, error : {Null} \cup {Some(e) : e \in ErrorPayloads}, uri : Uris]

PendingSnapshots ==
    { [done |-> FALSE, error |-> Null, uri |-> Null],
      [done |-> FALSE, error |-> Null, uri |-> Some("https://x/video1")],
      [done |-> FALSE, error |-> Some([message |-> Some("quota exceeded")]), uri |-> Null] }

Snapshots == DoneSnapshots \cup PendingSnapshots

\* error?.message of a rejected promise (null: the rejection value has no
\* message, as the ProgressEvent of a FileReader error)
Rejections == {Null, Some(""), Some("Network error"),
               Some("404 Requested entity was not found.")}

\* ------------------------------------------------------------------- state
InitialVideoState ==
    [isLoading |-> FALSE, progressMessage |-> "", videoUrl |-> Null, error |-> Null]

\* A slot with no invocation in progress.  Of an invocation in progress:
\*   pc             the await it is suspended at
\*   prompt         the prompt its closure captured (until it is sent)
\*   hasKey         what hasSelectedApiKey() answered
\*   operation      generateVeoVideo's local: the latest snapshot
\*   sentPrompt     the prompt of the creation request in flight
\*   selectKeyCalls, createReqs, statusReqs
\*                  openSelectKey() calls, creation and status requests made
IdleRun ==
    [pc |-> "idle", prompt |-> Null, hasKey |-> "none", operation |-> Null,
     sentPrompt |-> Null,
     selectKeyCalls |-> 0, createReqs |-> 0, statusReqs |-> 0]

Init ==
    /\ file = Null
    /\ prompt = ""
    /\ aspectRatio = LANDSCAPE
    /\ videoState = InitialVideoState
    /\ aistudio \in BOOLEAN
    /\ apiKey \in ApiKeys
    /\ run = [r \in Runs |-> IdleRun]
    /\ lastCall = "none"

\* ------------------------------------------------- geminiService (service)
\* variant: the fallback is chosen for a blank (trimmed-empty) prompt
RequestPromptTrimmed(p) == IF p # "" /\ p # " " THEN p ELSE FallbackPrompt

\* prompt || "Animate this image cinematically"
RequestPrompt(p) == IF p # "" THEN p ELSE FallbackPrompt

\* variant: the loop never looks at done
LoopContinuesAlways(op) == TRUE

\* variant: the loop runs until a result URI shows up
LoopContinuesUntilUri(op) == ~Truthy(op.uri)

\* while (!operation.done)
LoopContinues(op) == ~op.done

\* `Video generation failed: ${operation.error.message || 'Unknown error'}`
OperationErrorMessage(op) ==
    MsgGenFailedPrefix \o
        (IF Truthy(op.error[1].message) THEN op.error[1].message[1]
                                        ELSE MsgUnknownError)

\* variant: the URI is returned as received
DownloadUrlBare(uri, key) == uri

\* `${videoUri}&key=${process.env.API_KEY}`
DownloadUrl(uri, key) == uri \o KeyParam \o key

\* variant: the result URI is looked at before the error
GenerateResultUriFirst(op, key) ==
    IF Truthy(op.uri)
    THEN [ok |-> TRUE, value |-> DownloadUrl(op.uri[1], key)]
    ELSE IF op.error # Null
         THEN [ok |-> FALSE, value |-> OperationErrorMessage(op)]
         ELSE [ok |-> FALSE, value |-> MsgNoUri]

\* variant: no test of the URI (a missing one is rendered by the template)
GenerateResultUnchecked(op, key) ==
    IF op.error # Null
    THEN [ok |-> FALSE, value |-> OperationErrorMessage(op)]
    ELSE [ok |-> TRUE,
          value |-> DownloadUrl(IF op.uri = Null THEN "undefined" ELSE op.uri[1], key)]

\* The part of generateVeoVideo after the polling loop: what the promise
\* settles to for the final snapshot op (ok: resolved with value, otherwise
\* rejected with an Error whose message is value).
GenerateResult(op, key) ==
    IF op.error # Null
    THEN [ok |-> FALSE, value |-> OperationErrorMessage(op)]
    ELSE IF ~Truthy(op.uri)
         THEN [ok |-> FALSE, value |-> MsgNoUri]
         ELSE [ok |-> TRUE, value |-> DownloadUrl(op.uri[1], key)]

\* ---------------------------------------------------- App (handleGenerate)
\* variant: no early return
NoImageIgnored(f) == FALSE

\* if (!file) return;
NoImage(f) == f = Null

\* variant: the button ignores isLoading
ButtonDisabledNoImageOnly == file = Null

\* Button: disabled={disabled || isLoading}, with disabled={!file}
ButtonDisabled == file = Null \/ videoState.isLoading

\* variant: the start keeps the previous result and error
StartedStateKeeping ==
    [videoState EXCEPT !.isLoading = TRUE, !.progressMessage = MsgInitAuth]

StartedState ==
    [isLoading |-> TRUE, progressMessage |-> MsgInitAuth,
     videoUrl |-> Null, error |-> Null]

SubmittingState(vs) == [vs EXCEPT !.progressMessage = MsgUploading]

SucceededState(url) ==
    [isLoading |-> FALSE, progressMessage |-> MsgDone,
     videoUrl |-> Some(url), error |-> Null]

\* error?.message || "An unexpected error occurred"
ErrorMessage(err) == IF Truthy(err) THEN err[1] ELSE MsgUnexpected

\* errorMessage.includes("Requested entity was not found")
IsStaleKey(msg) == Includes(msg, NotFoundSignature)

\* variant: no override for the stale key
SurfacedErrorVerbatim(msg) == msg

\* the error text the catch block puts into the state
SurfacedError(msg) == IF IsStaleKey(msg) THEN MsgKeyInvalid ELSE msg

FailedState(vs, msg) ==
    [vs EXCEPT !.isLoading = FALSE, !.error = Some(SurfacedError(msg))]

\* variant: the rejection of openSelectKey() is rethrown
SelectKeyFailureRethrown(err) == err

\* the error thrown when the initial openSelectKey() rejects with err
SelectKeyFailure(err) == Some(MsgKeyRequired)

\* variant: Try Again resets the whole state
DismissedStateReset(vs) == InitialVideoState

\* Try Again: setVideoState(prev => ({ ...prev, error: null }))
DismissedState(vs) == [vs EXCEPT !.error = Null]

\* The catch block for a run rr that threw err: the state update, then the
\* best-effort openSelectKey() the run awaits when the key looks stale.
\* Nothing of the run but that pending call matters from then on.
Catch(vs, rr, err) ==
    LET msg == ErrorMessage(err) IN
    [vs |-> FailedState(vs, msg),
     rr |-> IF IsStaleKey(msg) /\ aistudio
            THEN [IdleRun EXCEPT !.pc = "reselect",
                                 !.selectKeyCalls = rr.selectKeyCalls + 1]
            ELSE IdleRun]

\* Line 43 and the call of generateVeoVideo, which runs up to its first
\* await (the file read).
EnterService(vs, rr) ==
    [vs |-> SubmittingState(vs), rr |-> [rr EXCEPT !.pc = "encode"]]

\* A create or status request returned snapshot s: the loop test, and when
\* the loop ends the rest of generateVeoVideo and of handleGenerate.
OnSnapshot(vs, rr, s) ==
    LET r1 == [rr EXCEPT !.operation = Some(s), !.sentPrompt = Null] IN
    IF LoopContinues(s)
    THEN [vs |-> vs, rr |-> [r1 EXCEPT !.pc = "wait"]]
    ELSE LET res == GenerateResult(s, apiKey) IN
         IF res.ok
         THEN [vs |-> SucceededState(res.value), rr |-> IdleRun]
         ELSE Catch(vs, r1, Some(res.value))

Commit(r, out) ==
    /\ videoState' = out.vs
    /\ run' = [run EXCEPT ![r] = out.rr]
    /\ UNCHANGED <<file, prompt, aspectRatio, aistudio, apiKey>>

\* ----------------------------------------------------------------- actions
\* handleGenerate is invoked; the invocation takes the first free slot r.
\* lastCall records how the invocation began: "returned" at line 20, or
\* "started".
HandleGenerate(r) ==
    /\ run[r].pc = "idle"
    /\ \A q \in Runs : q < r => run[q].pc # "idle"
    /\ IF NoImage(file)
       THEN /\ lastCall' = "returned"
            /\ Commit(r, [vs |-> videoState, rr |-> run[r]])
       ELSE /\ lastCall' = "started"
            /\ LET rr == [run[r] EXCEPT !.prompt = Some(prompt)] IN
               IF aistudio
               THEN Commit(r, [vs |-> StartedState, rr |-> [rr EXCEPT !.pc = "hasKey"]])
               ELSE Commit(r, EnterService(StartedState, rr))

\* the user clicks the enabled Generate Video button
ClickGenerate == ~ButtonDisabled /\ \E r \in Runs : HandleGenerate(r)

\* the callback is invoked although no image is selected
CallWithoutImage == file = Null /\ \E r \in Runs : HandleGenerate(r)

\* window.aistudio.hasSelectedApiKey() resolves with b
HasKeyReturns(r, b) ==
    /\ run[r].pc = "hasKey"
    /\ LET rr == [run[r] EXCEPT !.hasKey = IF b THEN "true" ELSE "false"] IN
       IF b THEN Commit(r, EnterService(videoState, rr))
            ELSE Commit(r, [vs |-> videoState,
                            rr |-> [rr EXCEPT !.pc = "selectKey",
                                              !.selectKeyCalls = @ + 1]])
    /\ UNCHANGED lastCall

HasKeyRejects(r, err) ==
    /\ run[r].pc = "hasKey"
    /\ Commit(r, Catch(videoState, [run[r] EXCEPT !.hasKey = "threw"], err))
    /\ UNCHANGED lastCall

\* the initial window.aistudio.openSelectKey() settles
SelectKeyResolves(r) ==
    /\ run[r].pc = "selectKey"
    /\ Commit(r, EnterService(videoState, run[r]))
    /\ UNCHANGED lastCall

SelectKeyRejects(r, err) ==
    /\ run[r].pc = "selectKey"
    /\ Commit(r, Catch(videoState, run[r], SelectKeyFailure(err)))
    /\ UNCHANGED lastCall

\* fileToGenerativePart resolves; the creation request is sent
EncodeDone(r) ==
    /\ run[r].pc = "encode"
    /\ Commit(r, [vs |-> videoState,
                  rr |-> [run[r] EXCEPT !.pc = "create", !.createReqs = @ + 1,
                                        !.prompt = Null,
                                        !.sentPrompt = Some(RequestPrompt(run[r].prompt[1]))]])
    /\ UNCHANGED lastCall

\* reader.onerror = reject: the rejection value is an event with no message
EncodeFails(r) ==
    /\ run[r].pc = "encode"
    /\ Commit(r, Catch(videoState, run[r], Null))
    /\ UNCHANGED lastCall

CreateReturns(r, s) ==
    /\ run[r].pc = "create"
    /\ Commit(r, OnSnapshot(videoState, run[r], s))
    /\ UNCHANGED lastCall

CreateRejects(r, err) ==
    /\ run[r].pc = "create"
    /\ Commit(r, Catch(videoState, run[r], err))
    /\ UNCHANGED lastCall

\* the 5 second timer fires; the status request is sent
TimerFires(r) ==
    /\ run[r].pc = "wait"
    /\ run[r].statusReqs < MaxPolls
    /\ Commit(r, [vs |-> videoState,
                  rr |-> [run[r] EXCEPT !.pc = "poll", !.statusReqs = @ + 1]])
    /\ UNCHANGED lastCall

StatusReturns(r, s) ==
    /\ run[r].pc = "poll"
    /\ Commit(r, OnSnapshot(videoState, run[r], s))
    /\ UNCHANGED lastCall

StatusRejects(r, err) ==
    /\ run[r].pc = "poll"
    /\ Commit(r, Catch(videoState, run[r], err))
    /\ UNCHANGED lastCall

\* the openSelectKey() of the catch block resolves or rejects: try {} catch(e) {}
ReselectSettles(r) ==
    /\ run[r].pc = "reselect"
    /\ Commit(r, [vs |-> videoState, rr |-> IdleRun])
    /\ UNCHANGED lastCall

\* FileUpload onFileSelect={setFile}
SelectFile(f) ==
    /\ file # Some(f)
    /\ file' = Some(f)
    /\ UNCHANGED <<prompt, aspectRatio, videoState, aistudio, apiKey, run, lastCall>>

SetPrompt(p) ==
    /\ prompt # p
    /\ prompt' = p
    /\ UNCHANGED <<file, aspectRatio, videoState, aistudio, apiKey, run, lastCall>>

SetAspectRatio(a) ==
    /\ aspectRatio # a
    /\ aspectRatio' = a
    /\ UNCHANGED <<file, prompt, videoState, aistudio, apiKey, run, lastCall>>

\* the Try Again button, rendered when videoState.error is truthy
Dismiss ==
    /\ Truthy(videoState.error)
    /\ videoState' = DismissedState(videoState)
    /\ UNCHANGED <<file, prompt, aspectRatio, aistudio, apiKey, run, lastCall>>

Next ==
    \/ ClickGenerate
    \/ CallWithoutImage
    \/ \E r \in Runs, b \in BOOLEAN : HasKeyReturns(r, b)
    \/ \E r \in Runs, e \in Rejections : HasKeyRejects(r, e)
    \/ \E r \in Runs : SelectKeyResolves(r)
    \/ \E r \in Runs, e \in Rejections : SelectKeyRejects(r, e)
    \/ \E r \in Runs : EncodeDone(r)
    \/ \E r \in Runs : EncodeFails(r)
    \/ \E r \in Runs, s \in Snapshots : CreateReturns(r, s)
    \/ \E r \in Runs, e \in Rejections : CreateRejects(r, e)
    \/ \E r \in Runs : TimerFires(r)
    \/ \E r \in Runs, s \in Snapshots : StatusReturns(r, s)
    \/ \E r \in Runs, e \in Rejections : StatusRejects(r, e)
    \/ \E r \in Runs : ReselectSettles(r)
    \/ \E f \in Files : SelectFile(f)
    \/ \E p \in Prompts : SetPrompt(p)
    \/ \E a \in AspectRatio : SetAspectRatio(a)
    \/ Dismiss

Spec == Init /\ [][Next]_vars

\* ------------------------------------------------------- fair specification
\* The status request of a run answered by a remote service that reports
\* done = true in the end: at the latest to the MaxPolls-th status request.
StatusReturnsInTheEnd(r, s) ==
    /\ s.done \/ run[r].statusReqs < MaxPolls
    /\ StatusReturns(r, s)

\* The next step of run r: the call or timer it awaits settles and the run
\* continues to its next await or to its end.
RunStep(r) ==
    \/ \E b \in BOOLEAN : HasKeyReturns(r, b)
    \/ \E e \in Rejections : HasKeyRejects(r, e)
    \/ SelectKeyResolves(r)
    \/ \E e \in Rejections : SelectKeyRejects(r, e)
    \/ EncodeDone(r)
    \/ EncodeFails(r)
    \/ \E s \in Snapshots : CreateReturns(r, s)
    \/ \E e \in Rejections : CreateRejects(r, e)
    \/ TimerFires(r)
    \/ \E s \in Snapshots : StatusReturnsInTheEnd(r, s)
    \/ \E e \in Rejections : StatusRejects(r, e)
    \/ ReselectSettles(r)

NextLive ==
    \/ ClickGenerate
    \/ CallWithoutImage
    \/ \E r \in Runs : RunStep(r)
    \/ \E f \in Files : SelectFile(f)
    \/ \E p \in Prompts : SetPrompt(p)
    \/ \E a \in AspectRatio : SetAspectRatio(a)
    \/ Dismiss

\* Every call and timer a run awaits settles; the user may stop acting.
LiveSpec == Init /\ [][NextLive]_vars /\ \A r \in Runs : WF_vars(RunStep(r))

\* ================================================================== claims
Busy == videoState.isLoading
HasResult == videoState.videoUrl # Null
HasError == videoState.error # Null
Idle == ~videoState.isLoading /\ videoState.videoUrl = Null /\ videoState.error = Null

\* run r, awaiting a creation or status request, takes a step
Settles(r) == run[r].pc \in {"create", "poll"} /\ run'[r] # run[r]

\* run r receives snapshot s for its creation or status request
Receives(r, s) == CreateReturns(r, s) \/ StatusReturns(r, s)

\* the message text of a rejection of an external call
RejectionText(e) == IF e # Null /\ e[1] # "" THEN e[1] ELSE "An unexpected error occurred"

\* the message text of the error generateVeoVideo throws for the error
\* payload of a done snapshot
RemoteErrorText(s) ==
    "Video generation failed: " \o
        (IF s.error[1].message # Null /\ s.error[1].message[1] # ""
         THEN s.error[1].message[1] ELSE "Unknown error")

StartsWith(s, prefix) ==
    Len(s) >= Len(prefix) /\ SubSeq(s, 1, Len(prefix)) = prefix

HasSignature(msg) == Includes(msg, "Requested entity was not found")

\* C1: in every reachable state exactly one of busy, has-result, has-error
\* and idle holds; videoUrl and error are never both non-null, and neither
\* is non-null while isLoading is true.
C1_ExactlyOne ==
    /\ Cardinality({c \in {"busy", "result", "error", "idle"} :
                      \/ c = "busy" /\ Busy
                      \/ c = "result" /\ HasResult
                      \/ c = "error" /\ HasError
                      \/ c = "idle" /\ Idle}) = 1
    /\ ~(HasResult /\ HasError)
    /\ Busy => ~HasResult /\ ~HasError

\* a new run is busy while an earlier one still awaits its reselection
C1_Witness ==
    \E r1, r2 \in Runs :
        run[r1].pc = "reselect" /\ run[r2].pc = "poll" /\ Busy

\* C2: a status request is sent only while the latest snapshot is not done;
\* a snapshot with done = false never ends the run or changes the workflow
\* state (no result, no Succeeded), it leads to the wait; a snapshot with
\* done = true, the creation request's included, ends the loop: the run
\* finishes or is left with its reselection only.
C2_PollUntilDone ==
    [][\A r \in Runs :
         /\ run'[r].statusReqs > run[r].statusReqs =>
               run[r].operation # Null /\ ~run[r].operation[1].done
         /\ Settles(r) =>
               \A s \in Snapshots : Receives(r, s) =>
                   IF s.done
                   THEN run'[r].pc \in {"idle", "reselect"} /\ run'[r].statusReqs = 0
                   ELSE run'[r].pc = "wait" /\ videoState' = videoState
         /\ run[r].pc = "reselect" => run'[r].pc \in {"reselect", "idle"}]_vars

\* a run that polled and was answered done = false with a result URI in the
\* snapshot: it is busy, has no result and waits for its next poll
C2_Witness ==
    \E r \in Runs :
        /\ run[r].pc = "wait"
        /\ run[r].statusReqs >= 1
        /\ ~run[r].operation[1].done
        /\ run[r].operation[1].uri = Some("https://x/video1")
        /\ videoState.isLoading /\ videoState.videoUrl = Null

\* C3: a done snapshot with no error and a result URI u ends the run with
\* isLoading = false, progressMessage = "Done!", error = null and
\* videoUrl = u & "&key=" & credential; no other step gives videoUrl a new
\* non-null value.
C3_Succeeded ==
    [][/\ \A r \in Runs : Settles(r) => \A s \in DoneSnapshots :
            s.error = Null /\ s.uri # Null /\ s.uri[1] # "" /\ Receives(r, s) =>
                /\ videoState' = [isLoading |-> FALSE, progressMessage |-> "Done!",
                                  videoUrl |-> Some(s.uri[1] \o "&key=" \o apiKey),
                                  error |-> Null]
                /\ run'[r].pc = "idle"
       /\ videoState'.videoUrl # Null /\ videoState'.videoUrl # videoState.videoUrl =>
            \E r \in Runs, s \in DoneSnapshots :
                s.error = Null /\ s.uri # Null /\ s.uri[1] # "" /\ Receives(r, s)]_vars

C3_Witness ==
    /\ videoState = [isLoading |-> FALSE, progressMessage |-> "Done!",
                     videoUrl |-> Some("https://x/video1&key=KEY1"), error |-> Null]
    /\ apiKey = "KEY1"

\* C4 as stated: every done snapshot with an error ends the run in Failed and
\* the surfaced error carries the remote message, or the generic fallback
\* text when there is none.
C4_Original ==
    [][\A r \in Runs : Settles(r) => \A s \in DoneSnapshots :
         s.error # Null /\ Receives(r, s) =>
            /\ ~videoState'.isLoading
            /\ videoState'.videoUrl = Null
            /\ videoState'.error # Null
            /\ Includes(videoState'.error[1],
                        IF s.error[1].message # Null /\ s.error[1].message[1] # ""
                        THEN s.error[1].message[1] ELSE "Unknown error")]_vars

\* C4 (amended): every done snapshot with an error, with or without a result
\* URI, ends the run in Failed (isLoading = false, videoUrl = null); the
\* error is "Video generation failed: " followed by the remote message (by
\* "Unknown error" when the message is missing or empty), unless that text
\* contains "Requested entity was not found": then it is the fixed
\* "API Key session invalid..." text.
C4_Amended ==
    [][\A r \in Runs : Settles(r) => \A s \in DoneSnapshots :
         s.error # Null /\ Receives(r, s) =>
            /\ ~videoState'.isLoading
            /\ videoState'.videoUrl = Null
            /\ videoState'.progressMessage = videoState.progressMessage
            /\ videoState'.error =
                 Some(IF HasSignature(RemoteErrorText(s))
                      THEN "API Key session invalid. Please try generating again to select a new key."
                      ELSE RemoteErrorText(s))]_vars

C4_Witness ==
    /\ ~videoState.isLoading
    /\ videoState.videoUrl = Null
    /\ videoState.error = Some("Video generation failed: quota exceeded")

\* C5: a done snapshot with no error and no result URI (missing or empty)
\* ends the run in Failed with "No video URI returned from the API.", a
\* text that is not one of the operation error texts; the workflow is never
\* Succeeded ("Done!") with a null or empty videoUrl.
C5_NoResult ==
    [][/\ \A r \in Runs : Settles(r) => \A s \in DoneSnapshots :
            s.error = Null /\ (s.uri = Null \/ s.uri[1] = "") /\ Receives(r, s) =>
                /\ videoState' = [videoState EXCEPT
                                    !.isLoading = FALSE,
                                    !.error = Some("No video URI returned from the API.")]
                /\ videoState'.videoUrl = Null
                /\ ~StartsWith(videoState'.error[1], "Video generation failed: ")
                /\ \A t \in DoneSnapshots :
                       t.error # Null => videoState'.error # Some(RemoteErrorText(t))
       /\ videoState'.progressMessage = "Done!" =>
            videoState'.videoUrl # Null /\ videoState'.videoUrl[1] # ""]_vars

C5_Witness ==
    /\ ~videoState.isLoading
    /\ videoState.videoUrl = Null
    /\ videoState.error = Some("No video URI returned from the API.")

\* run r fails in this step with a failure message that contains
\* "Requested entity was not found"
StaleFailure(r) ==
    /\ run[r].pc \in {"hasKey", "create", "poll"}
    /\ run'[r] # run[r]
    /\ \/ \E e \in Rejections :
             /\ HasSignature(RejectionText(e))
             /\ HasKeyRejects(r, e) \/ CreateRejects(r, e) \/ StatusRejects(r, e)
       \/ \E s \in DoneSnapshots :
             s.error # Null /\ HasSignature(RemoteErrorText(s)) /\ Receives(r, s)

\* the openSelectKey() calls run r has made up to the end of this step (the
\* run that ends in the step made none in it)
SelectorCalls(r) ==
    IF run'[r].pc = "reselect" THEN run'[r].selectKeyCalls ELSE run[r].selectKeyCalls

\* the openSelectKey() of the catch block of run r settles in this step
ReselectionEnds(r) == run[r].pc = "reselect" /\ run'[r] # run[r]

\* C6 as stated, for the runs that have the authentication capability (the
\* others call nothing): a run whose failure message contains "Requested
\* entity was not found" sets the error to the fixed "API Key session
\* invalid..." text and has called openSelectKey exactly once, whatever
\* hasSelectedApiKey returned; the settling of that reselection leaves the
\* state unchanged.
C6_Original ==
    [][\A r \in Runs :
         /\ aistudio /\ StaleFailure(r) =>
              /\ videoState'.error =
                   Some("API Key session invalid. Please try generating again to select a new key.")
              /\ SelectorCalls(r) = 1
         /\ ReselectionEnds(r) => videoState' = videoState]_vars

\* C6 (amended): such a run sets isLoading = false and the error to the fixed
\* "API Key session invalid..." text; its catch block calls openSelectKey
\* once if the authentication capability is available and not at all if it
\* is absent, on top of the one call the run made at its start when
\* hasSelectedApiKey returned false; the settling of the reselection ends the
\* run and leaves the workflow state unchanged.
C6_Amended ==
    [][\A r \in Runs :
         /\ StaleFailure(r) =>
              /\ videoState' = [videoState EXCEPT
                    !.isLoading = FALSE,
                    !.error = Some("API Key session invalid. Please try generating again to select a new key.")]
              /\ SelectorCalls(r) - run[r].selectKeyCalls = (IF aistudio THEN 1 ELSE 0)
              /\ run[r].selectKeyCalls = (IF run[r].hasKey = "false" THEN 1 ELSE 0)
              /\ run'[r].pc = (IF aistudio THEN "reselect" ELSE "idle")
         /\ ReselectionEnds(r) => videoState' = videoState /\ run'[r] = IdleRun]_vars

\* the reselection of a run that had already selected a key at its start
C6_Witness ==
    \E r \in Runs :
        /\ run[r].pc = "reselect"
        /\ run[r].selectKeyCalls = 2
        /\ videoState.error =
             Some("API Key session invalid. Please try generating again to select a new key.")
        /\ ~videoState.isLoading

C8_NoImage ==
    [][CallWithoutImage =>
         /\ videoState' = videoState
         /\ run' = run
         /\ \A r \in Runs : run'[r] = IdleRun
         /\ lastCall' = "returned"]_vars

C8_Witness ==
    /\ lastCall = "returned"
    /\ file = Null
    /\ prompt = "pan left" /\ aspectRatio = "9:16"
    /\ videoState = InitialVideoState

\* C9: a dismiss in a Failed state gives the Idle state and changes nothing
\* but the error: progressMessage, the selected image, the prompt and the
\* aspect ratio are as before.
C9_Dismiss ==
    [][Dismiss =>
         /\ videoState.error # Null
         /\ videoState' = [isLoading |-> FALSE,
                           progressMessage |-> videoState.progressMessage,
                           videoUrl |-> Null, error |-> Null]
         /\ file' = file /\ prompt' = prompt /\ aspectRatio' = aspectRatio
         /\ run' = run]_vars

\* an Idle state that still shows the progress message of the failed run
C9_Witness ==
    /\ Idle
    /\ videoState.progressMessage = "Uploading image & starting generation..."
    /\ file # Null /\ prompt = "pan left"

\* C10: the prompt of the creation request is "Animate this image
\* cinematically" when the prompt handleGenerate was called with is empty,
\* and that prompt itself otherwise, a blank one included.
C10_Prompt ==
    [][\A r \in Runs :
         /\ run[r].pc = "idle" /\ run'[r].pc # "idle" => run'[r].prompt = Some(prompt)
         /\ run'[r].createReqs > run[r].createReqs =>
              run'[r].sentPrompt =
                 Some(IF run[r].prompt[1] = ""
                      THEN "Animate this image cinematically"
                      ELSE run[r].prompt[1])]_vars

\* a creation request in flight with the blank prompt as typed
C10_Witness ==
    \E r \in Runs : run[r].pc = "create" /\ run[r].sentPrompt = Some(" ")

\* the awaits of a run between its start and its Succeeded or Failed update
InFlightPcs == {"hasKey", "selectKey", "encode", "create", "wait", "poll"}

InFlight == {r \in Runs : run[r].pc \in InFlightPcs}

\* C11: at most one run is between its start and its Succeeded or Failed
\* update, and isLoading is true exactly while there is one; a run begins
\* only when none is in flight, and a run's update of the workflow state is
\* made while no other run is in flight.
C11_SingleFlight ==
    [][/\ Cardinality(InFlight) <= 1
       /\ videoState.isLoading <=> InFlight # {}
       /\ Cardinality(InFlight') <= 1
       /\ videoState'.isLoading <=> InFlight' # {}
       /\ \A r \in Runs :
            /\ run[r].pc = "idle" /\ run'[r].pc # "idle" => InFlight = {}
            /\ run'[r] # run[r] /\ videoState' # videoState =>
                 \A q \in Runs \ {r} : run[q].pc \notin InFlightPcs]_vars

\* a second run has begun after the first one failed, while the first still
\* awaits its reselection
C11_Witness ==
    \E r1, r2 \in Runs :
        /\ run[r1].pc = "reselect"
        /\ run[r2].pc = "hasKey"
        /\ InFlight = {r2}
        /\ videoState.isLoading

\* C12: with every awaited call settling and the remote reporting done = true
\* in the end, a busy workflow state leads to isLoading = false with a result
\* or an error; until then nothing but a done snapshot or a thrown error ends
\* the run: a status request is sent only by a run that has waited, a waiting
\* run does nothing but send it, and a run polls again after done = false,
\* busy all the while.
C12_Terminates ==
    /\ videoState.isLoading ~> (~videoState.isLoading /\ (HasResult \/ HasError))
    /\ [][\A r \in Runs :
            /\ run'[r].statusReqs > run[r].statusReqs =>
                 run[r].pc = "wait" /\ run'[r].pc = "poll"
            /\ run[r].pc = "wait" /\ run'[r] # run[r] =>
                 /\ run'[r].pc = "poll"
                 /\ run'[r].statusReqs = run[r].statusReqs + 1
                 /\ videoState' = videoState
            /\ run'[r].pc = "wait" /\ run'[r] # run[r] =>
                 /\ run[r].pc \in {"create", "poll"}
                 /\ ~run'[r].operation[1].done
                 /\ videoState' = videoState /\ videoState.isLoading]_vars

\* a run still busy in its second poll after two answers of done = false
C12_Witness ==
    \E r \in Runs :
        /\ run[r].pc = "poll"
        /\ run[r].statusReqs = 2
        /\ ~run[r].operation[1].done
        /\ videoState.isLoading
        /\ videoState.progressMessage = "Uploading image & starting generation..."

====
